---------------------------- MODULE Spec2Model ----------------------------
(***************************************************************************)
(* A model of the polynomial_tools crate (src/src/lib.rs).                 *)
(*                                                                         *)
(* Three independent parts of the crate are modelled, each with its own    *)
(* specification over its own group of variables:                          *)
(*                                                                         *)
(*   SpecGP    GeneralPolynomial and its Add / Sub operator loops          *)
(*   SpecFmt   the formatting helpers plus_minus, signed_val, s_val_last,  *)
(*             display_header and the rendering built from them            *)
(*   SpecPoly  the Polynomial trait: f64 and the fixed-degree types        *)
(*                                                                         *)
(* An f64 coefficient is modelled by the number it holds.  GeneralPoly-    *)
(* nomial and the fixed-degree types take integer-valued coefficients      *)
(* (the new_i constructors), on which f64 arithmetic is exact; the         *)
(* formatting helpers take finite decimals with one fractional digit,      *)
(* held as a whole number of tenths.                                       *)
(***************************************************************************)
EXTENDS Integers, Sequences, FiniteSets, TLC

VARIABLES
  \* ---- GeneralPolynomial ----
  pc,        \* "idle", or the operator whose loop is running: "add" / "sub"
  self,      \* self.data of the running (or last) call
  other,     \* other.data of the running (or last) call
  size,      \* let size = larger(self.data.len(), other.data.len())
  i,         \* the loop index of `for i in 0..size`
  to_push,   \* let mut to_push = 0.0
  new,       \* let mut new = Vec::with_capacity(size)
  result,    \* the GeneralPolynomial the last call returned
  lastop,    \* "none", or the operator that returned `result`
  first,     \* the operands of an expression, and the operator of its first call
  chained,   \* TRUE when the running (or last) call took `result` as self
  \* ---- formatting ----
  coefs,     \* the coefficients of the polynomial to print, highest degree first
  fn,        \* "none", or the formatting function that was called
  fval,      \* its argument val
  fsuffix,   \* its argument suffix
  fout,      \* the String it returned
  \* ---- Polynomial trait ----
  origin,    \* the polynomial constructed initially
  pop,       \* "none", or the last method called
  recv,      \* the receiver of the last call
  arg,       \* the right operand of the last call, if it was a multiplication
  pout,      \* the value the last call returned
  nderiv     \* how many times derivative() has been applied in succession

gpvars == <<pc, self, other, size, i, to_push, new, result, lastop, first, chained>>

fmtvars == <<coefs, fn, fval, fsuffix, fout>>

polyvars == <<origin, pop, recv, arg, pout, nderiv>>

vars == <<gpvars, fmtvars, polyvars>>

(***************************************************************************)
(* Bounds of the model.                                                    *)
(***************************************************************************)
MaxLen == 2        \* longest coefficient vector handed to an operator
MaxCoef == 1       \* largest absolute value of an integer coefficient
MaxHalf == 3       \* largest absolute value of a printed coefficient, in halves
MaxDerivs == 5     \* longest run of successive derivative() calls

Coef == (0 - MaxCoef)..MaxCoef

Vecs == UNION {[1..n -> Coef] : n \in 0..MaxLen}

(***************************************************************************)
(* Helpers of lib.rs.                                                      *)
(***************************************************************************)
\* fn larger<T: PartialOrd>(first: T, second: T) -> T
larger(a, b) == IF a > b THEN a ELSE b

\* fn inbounds<T>(index: usize, vec: &Vec<T>) -> bool; index counts from 0
inbounds(index, vec) == index < Len(vec)

\* vec[index] of Rust, index counting from 0
At(vec, index) == vec[index + 1]

(***************************************************************************)
(* The body of one iteration of Add::add's loop: the value of to_push when *)
(* it is pushed.  If no branch is taken to_push keeps its old value.       *)
(***************************************************************************)
add_body_dropped_branch(s, o, idx, tp) ==
  IF inbounds(idx, s) /\ inbounds(idx, o) THEN At(s, idx) + At(o, idx)
  ELSE IF inbounds(idx, s) /\ ~inbounds(idx, o) THEN At(s, idx)
  ELSE tp

add_body_minus(s, o, idx, tp) ==
  IF inbounds(idx, s) /\ inbounds(idx, o) THEN At(s, idx) - At(o, idx)
  ELSE IF inbounds(idx, s) /\ ~inbounds(idx, o) THEN At(s, idx)
  ELSE IF inbounds(idx, o) /\ ~inbounds(idx, s) THEN At(o, idx)
  ELSE tp

add_body(s, o, idx, tp) ==
  IF inbounds(idx, s) /\ inbounds(idx, o) THEN At(s, idx) + At(o, idx)
  ELSE IF inbounds(idx, s) /\ ~inbounds(idx, o) THEN At(s, idx)
  ELSE IF inbounds(idx, o) /\ ~inbounds(idx, s) THEN At(o, idx)
  ELSE tp

(***************************************************************************)
(* The body of one iteration of Sub::sub's loop.                           *)
(***************************************************************************)
sub_body(s, o, idx, tp) ==
  IF inbounds(idx, s) /\ inbounds(idx, o) THEN At(s, idx) - At(o, idx)
  ELSE IF inbounds(idx, s) /\ ~inbounds(idx, o) THEN At(s, idx)
  ELSE IF inbounds(idx, o) /\ ~inbounds(idx, s) THEN At(o, idx)
  ELSE tp

\* GeneralPolynomial::new(data): Self { data }
GeneralPolynomial_new(data) == data

(***************************************************************************)
(* Actions of the GeneralPolynomial part.                                  *)
(***************************************************************************)
GPInit ==
  /\ pc = "idle"
  /\ self = <<>>
  /\ other = <<>>
  /\ size = 0
  /\ i = 0
  /\ to_push = 0
  /\ new = <<>>
  /\ result = <<>>
  /\ lastop = "none"
  /\ first \in [op : {"none"}, p : Vecs, q : Vecs]
  /\ chained = FALSE
  \* the other parts stay idle
  /\ coefs = <<>>
  /\ fn = "none"
  /\ fval = 0
  /\ fsuffix = <<>>
  /\ fout = <<>>
  /\ origin = [ty |-> "f64", c |-> <<0>>]
  /\ pop = "none"
  /\ recv = [ty |-> "f64", c |-> <<0>>]
  /\ arg = [ty |-> "f64", c |-> <<0>>]
  /\ pout = [ty |-> "f64", c |-> <<0>>]
  /\ nderiv = 0

\* The prologue of add / sub: size, new and to_push are set, the loop starts.
Enter(op, p, q) ==
  /\ pc' = op
  /\ self' = p
  /\ other' = q
  /\ size' = larger(Len(p), Len(q))
  /\ new' = <<>>
  /\ to_push' = 0
  /\ i' = 0

\* p + q or p - q on the two freshly constructed operands
Call(op) ==
  /\ pc = "idle"
  /\ first.op = "none"
  /\ Enter(op, GeneralPolynomial_new(first.p), GeneralPolynomial_new(first.q))
  /\ first' = [first EXCEPT !.op = op]
  /\ UNCHANGED <<result, lastop, chained>>
  /\ UNCHANGED <<fmtvars, polyvars>>

\* (p op1 q) op q: the result of the first call, moved into a second call
\* together with a clone of the first call's right operand
CallOnResult(op) ==
  /\ pc = "idle"
  /\ lastop # "none"
  /\ ~chained
  /\ Enter(op, result, first.q)
  /\ chained' = TRUE
  /\ UNCHANGED <<result, lastop, first>>
  /\ UNCHANGED <<fmtvars, polyvars>>

\* one iteration of `for i in 0..size` in add
AddStep ==
  /\ pc = "add"
  /\ i < size
  /\ to_push' = add_body(self, other, i, to_push)
  /\ new' = Append(new, to_push')
  /\ i' = i + 1
  /\ UNCHANGED <<pc, self, other, size, result, lastop, first, chained>>
  /\ UNCHANGED <<fmtvars, polyvars>>

\* one iteration of `for i in 0..size` in sub
SubStep ==
  /\ pc = "sub"
  /\ i < size
  /\ to_push' = sub_body(self, other, i, to_push)
  /\ new' = Append(new, to_push')
  /\ i' = i + 1
  /\ UNCHANGED <<pc, self, other, size, result, lastop, first, chained>>
  /\ UNCHANGED <<fmtvars, polyvars>>

\* Self::new(new) after the loop
Return ==
  /\ pc \in {"add", "sub"}
  /\ i = size
  /\ result' = GeneralPolynomial_new(new)
  /\ lastop' = pc
  /\ pc' = "idle"
  /\ UNCHANGED <<self, other, size, i, to_push, new, first, chained>>
  /\ UNCHANGED <<fmtvars, polyvars>>

GPNext ==
  \/ Call("add")
  \/ Call("sub")
  \/ CallOnResult("add")
  \/ CallOnResult("sub")
  \/ AddStep
  \/ SubStep
  \/ Return

SpecGP == GPInit /\ [][GPNext]_vars

(***************************************************************************)
(* Claims about GeneralPolynomial.                                         *)
(***************************************************************************)
\* the coefficient at index idx, a missing one read as 0
Coeff(vec, idx) == IF inbounds(idx, vec) THEN At(vec, idx) ELSE 0

\* C1: after p - q returns, the result has length max(len p, len q) and its
\* coefficient at every index is p[i] - q[i], a missing coefficient read as 0
\* (so 0 - q[i] at an index only q has).
C1_SubIsPaddedDifference ==
  (pc = "idle" /\ lastop = "sub") =>
    /\ Len(result) = larger(Len(self), Len(other))
    /\ \A k \in 0..(Len(result) - 1) :
         At(result, k) = Coeff(self, k) - Coeff(other, k)

\* C2: while p + q runs and after it returns, every coefficient pushed so
\* far is p[i] + q[i] with a missing coefficient read as 0 (so none is a
\* value carried over from an earlier index), and the returned result has
\* length max(len p, len q).
C2_AddIsPaddedSum ==
  /\ pc = "add" =>
       /\ Len(new) = i
       /\ \A k \in 0..(Len(new) - 1) :
            At(new, k) = Coeff(self, k) + Coeff(other, k)
  /\ (pc = "idle" /\ lastop = "add") =>
       /\ Len(result) = larger(Len(self), Len(other))
       /\ \A k \in 0..(Len(result) - 1) :
            At(result, k) = Coeff(self, k) + Coeff(other, k)

\* an addition of operands of different lengths, both non-empty, has returned
C2_Witness ==
  /\ pc = "idle"
  /\ lastop = "add"
  /\ Len(self) > Len(other)
  /\ Len(other) > 0
  /\ \E k \in 1..Len(result) : result[k] # 0

\* C10: (p + q) - q, with q no longer than p, returns p: the same length and
\* the same coefficient at every index.
C10_AddSubRoundTrip ==
  (/\ pc = "idle"
   /\ chained
   /\ first.op = "add"
   /\ lastop = "sub"
   /\ Len(first.q) <= Len(first.p)) => result = first.p

\* a round trip (p + q) - q with non-zero q strictly shorter than p returned
C10_Witness ==
  /\ pc = "idle"
  /\ chained
  /\ first.op = "add"
  /\ lastop = "sub"
  /\ Len(first.q) < Len(first.p)
  /\ \E k \in 1..Len(first.q) : first.q[k] # 0

(***************************************************************************)
(* Formatting.  A String is a sequence of one-character strings.  A        *)
(* printed coefficient is a finite f64 with one fractional digit, held as  *)
(* its number of tenths: 10 is 1.0, -25 is -2.5.                           *)
(***************************************************************************)
One == 10

FmtVals == {5 * h : h \in (0 - MaxHalf)..MaxHalf}

\* f64::abs
abs(v) == IF v < 0 THEN 0 - v ELSE v

Digit(d) == <<"0", "1", "2", "3", "4", "5", "6", "7", "8", "9">>[d + 1]

RECURSIVE Decimal(_)
Decimal(n) == IF n < 10 THEN <<Digit(n)>> ELSE Decimal(n \div 10) \o <<Digit(n % 10)>>

\* Display for f64, as `{}` and to_string() use it: the shortest decimal that
\* reads back as the value, with no ".0" for a whole number
to_string(v) ==
  (IF v < 0 THEN <<"-">> ELSE <<>>)
    \o Decimal(abs(v) \div 10)
    \o (IF abs(v) % 10 = 0 THEN <<>> ELSE <<".", Digit(abs(v) % 10)>>)

plus_minus(val, string) ==
  IF val > 0 THEN <<" ", "+", " ">> \o string
  ELSE IF val < 0 THEN <<" ", "-", " ">> \o string
  ELSE string

signed_val_keeps_one(val, suffix) ==
  IF val # 0 THEN plus_minus(val, to_string(abs(val)) \o suffix)
  ELSE <<>>

signed_val(val, suffix) ==
  IF abs(val) = One THEN plus_minus(val, suffix)
  ELSE IF val # 0 THEN plus_minus(val, to_string(abs(val)) \o suffix)
  ELSE <<>>

s_val_last(val) ==
  IF val = 0 THEN <<>>
  ELSE plus_minus(val, to_string(abs(val)))

display_header(val, suffix) ==
  IF val = 0 THEN <<>>
  ELSE IF val = One THEN suffix
  ELSE to_string(val) \o suffix

\* the suffix of the term of degree d: "x", "x^2", "x^3", "x^4"
Suffix(d) == IF d = 1 THEN <<"x">> ELSE <<"x", "^", Digit(d)>>

RECURSIVE Interior(_, _)
\* signed_val of the coefficients from position k down to degree 1
Interior(cs, k) ==
  IF k >= Len(cs) THEN <<>>
  ELSE signed_val(cs[k], Suffix(Len(cs) - k)) \o Interior(cs, k + 1)

\* Display::fmt of Linear, Quadratic, Cubic and Quartic
fmt(cs) ==
  display_header(cs[1], Suffix(Len(cs) - 1)) \o Interior(cs, 2) \o s_val_last(cs[Len(cs)])

(***************************************************************************)
(* Actions of the formatting part: one call of one function on the         *)
(* polynomial chosen initially.                                            *)
(***************************************************************************)
FmtInit ==
  /\ coefs \in UNION {[1..n -> FmtVals] : n \in 2..5}
  /\ fn = "none"
  /\ fval = 0
  /\ fsuffix = <<>>
  /\ fout = <<>>
  \* the other parts stay idle
  /\ pc = "idle"
  /\ self = <<>>
  /\ other = <<>>
  /\ size = 0
  /\ i = 0
  /\ to_push = 0
  /\ new = <<>>
  /\ result = <<>>
  /\ lastop = "none"
  /\ first = [op |-> "none", p |-> <<>>, q |-> <<>>]
  /\ chained = FALSE
  /\ origin = [ty |-> "f64", c |-> <<0>>]
  /\ pop = "none"
  /\ recv = [ty |-> "f64", c |-> <<0>>]
  /\ arg = [ty |-> "f64", c |-> <<0>>]
  /\ pout = [ty |-> "f64", c |-> <<0>>]
  /\ nderiv = 0

CallDisplayHeader ==
  /\ fn = "none"
  /\ fn' = "display_header"
  /\ fval' = coefs[1]
  /\ fsuffix' = Suffix(Len(coefs) - 1)
  /\ fout' = display_header(fval', fsuffix')
  /\ UNCHANGED coefs
  /\ UNCHANGED <<gpvars, polyvars>>

CallSignedVal(k) ==
  /\ fn = "none"
  /\ fn' = "signed_val"
  /\ fval' = coefs[k]
  /\ fsuffix' = Suffix(Len(coefs) - k)
  /\ fout' = signed_val(fval', fsuffix')
  /\ UNCHANGED coefs
  /\ UNCHANGED <<gpvars, polyvars>>

CallSValLast ==
  /\ fn = "none"
  /\ fn' = "s_val_last"
  /\ fval' = coefs[Len(coefs)]
  /\ fsuffix' = <<>>
  /\ fout' = s_val_last(fval')
  /\ UNCHANGED coefs
  /\ UNCHANGED <<gpvars, polyvars>>

CallFmt ==
  /\ fn = "none"
  /\ fn' = "fmt"
  /\ fout' = fmt(coefs)
  /\ UNCHANGED <<coefs, fval, fsuffix>>
  /\ UNCHANGED <<gpvars, polyvars>>

FmtNext ==
  \/ CallDisplayHeader
  \/ \E k \in 2..(Len(coefs) - 1) : CallSignedVal(k)
  \/ CallSValLast
  \/ CallFmt

SpecFmt == FmtInit /\ [][FmtNext]_vars

(***************************************************************************)
(* Claims about formatting.                                                *)
(***************************************************************************)
StartsWith(str, prefix) ==
  /\ Len(str) >= Len(prefix)
  /\ SubSeq(str, 1, Len(prefix)) = prefix

\* C3: display_header of a coefficient of absolute value 1 has no numeral:
\* it is the suffix alone for 1 and "-" followed by the suffix for -1.
C3_HeaderElidesUnit ==
  (fn = "display_header" /\ abs(fval) = One) =>
    fout = (IF fval < 0 THEN <<"-">> ELSE <<>>) \o fsuffix

\* C4: the text of a Linear, Quadratic, Cubic or Quartic never begins with
\* the separator " + " or " - ", whatever its coefficients are.
C4_TextNeverStartsWithSeparator ==
  fn = "fmt" =>
    /\ ~StartsWith(fout, <<" ", "+", " ">>)
    /\ ~StartsWith(fout, <<" ", "-", " ">>)

Separator(v) == IF v > 0 THEN <<" ", "+", " ">> ELSE <<" ", "-", " ">>

\* C5: signed_val(v, s) is empty for v = 0, the separator of v's sign and s
\* for |v| = 1, and otherwise the separator, the numeral of |v| and s;
\* s_val_last(v) is empty for v = 0 and otherwise the separator and the
\* numeral of |v|, the digit kept for |v| = 1.
C5_NonLeadingTerms ==
  /\ fn = "signed_val" =>
       fout = (IF fval = 0 THEN <<>>
               ELSE IF abs(fval) = One THEN Separator(fval) \o fsuffix
               ELSE Separator(fval) \o to_string(abs(fval)) \o fsuffix)
  /\ fn = "s_val_last" =>
       fout = (IF fval = 0 THEN <<>>
               ELSE Separator(fval) \o to_string(abs(fval)))
  /\ (fn = "s_val_last" /\ abs(fval) = One) => fout[Len(fout)] = "1"

\* signed_val(-1, "x") returned " - x"
C5_Witness ==
  /\ fn = "signed_val"
  /\ fval = 0 - One
  /\ fsuffix = <<"x">>
  /\ fout = <<" ", "-", " ", "x">>

(***************************************************************************)
(* The Polynomial trait.  A value is [ty, c]: its type and its fields in   *)
(* declaration order (a, b, c, ...: highest degree first); an f64 has the  *)
(* one field it is.                                                        *)
(***************************************************************************)
Scalar(v) == [ty |-> "f64", c |-> <<v>>]
Linear(a, b) == [ty |-> "Linear", c |-> <<a, b>>]
Quadratic(a, b, c) == [ty |-> "Quadratic", c |-> <<a, b, c>>]
Cubic(a, b, c, d) == [ty |-> "Cubic", c |-> <<a, b, c, d>>]
Quartic(a, b, c, d, e) == [ty |-> "Quartic", c |-> <<a, b, c, d, e>>]

Fields(ty) ==
  CASE ty = "f64" -> 1
    [] ty = "Linear" -> 2
    [] ty = "Quadratic" -> 3
    [] ty = "Cubic" -> 4
    [] ty = "Quartic" -> 5

Types == {"f64", "Linear", "Quadratic", "Cubic", "Quartic"}

Values(ty) == {[ty |-> ty, c |-> cs] : cs \in [1..Fields(ty) -> Coef]}

\* impl Polynomial for f64
f64_evaluate(x, at) == x

f64_is_zero(x) == x = 0

f64_degree_one(x) == 1

f64_degree(x) == 0

f64_derivative_self(x) == x

f64_derivative(x) == 0

\* Polynomial::degree
degree(p) ==
  CASE p.ty = "f64" -> f64_degree(p.c[1])
    [] p.ty = "Linear" -> 1
    [] p.ty = "Quadratic" -> 2
    [] p.ty = "Cubic" -> 3
    [] p.ty = "Quartic" -> 4

\* Polynomial::is_zero
is_zero(p) ==
  IF p.ty = "f64" THEN f64_is_zero(p.c[1])
  ELSE \A k \in 1..Len(p.c) : p.c[k] = 0

\* Polynomial::derivative; its type is Self::Derivative
derivative(p) ==
  CASE p.ty = "f64" -> Scalar(f64_derivative(p.c[1]))
    [] p.ty = "Linear" -> Scalar(p.c[1])
    [] p.ty = "Quadratic" -> Linear(2 * p.c[1], p.c[2])
    [] p.ty = "Cubic" -> Quadratic(3 * p.c[1], 2 * p.c[2], p.c[3])
    [] p.ty = "Quartic" -> Cubic(4 * p.c[1], 3 * p.c[2], 2 * p.c[3], p.c[4])

\* impl Mul<f64>: every coefficient scaled
mul_f64(p, k) == [ty |-> p.ty, c |-> [n \in 1..Len(p.c) |-> p.c[n] * k]]

Linear_mul_Linear(l, r) ==
  Quadratic(l.c[1] * r.c[1],
            l.c[1] * r.c[2] + r.c[1] * l.c[2],
            l.c[2] * r.c[2])

Quadratic_mul_Linear(l, r) ==
  Cubic(l.c[1] * r.c[1],
        l.c[1] * r.c[2] + l.c[2] * r.c[1],
        l.c[2] * r.c[2] + l.c[3] * r.c[1],
        l.c[3] * r.c[2])

Quadratic_mul_Quadratic_no_cross(l, r) ==
  Quartic(l.c[1] * r.c[1],
          l.c[1] * r.c[2] + l.c[2] * r.c[1],
          l.c[1] * r.c[3] + l.c[3] * r.c[1],
          l.c[2] * r.c[3] + l.c[3] * r.c[2],
          l.c[3] * r.c[3])

Quadratic_mul_Quadratic(l, r) ==
  Quartic(l.c[1] * r.c[1],
          l.c[1] * r.c[2] + l.c[2] * r.c[1],
          l.c[1] * r.c[3] + l.c[2] * r.c[2] + l.c[3] * r.c[1],
          l.c[2] * r.c[3] + l.c[3] * r.c[2],
          l.c[3] * r.c[3])

Cubic_mul_Linear(l, r) ==
  Quartic(l.c[1] * r.c[1],
          l.c[1] * r.c[2] + l.c[2] * r.c[1],
          l.c[2] * r.c[2] + l.c[3] * r.c[1],
          l.c[3] * r.c[2] + l.c[4] * r.c[1],
          l.c[4] * r.c[2])

\* the operand types a multiplication is defined for
MulDefined(lt, rt) ==
  \/ rt = "f64"
  \/ lt \in {"Linear", "Quadratic", "Cubic"} /\ rt = "Linear"
  \/ lt = "Quadratic" /\ rt = "Quadratic"

\* l * r
mul(l, r) ==
  CASE r.ty = "f64" -> mul_f64(l, r.c[1])
    [] l.ty = "Linear" /\ r.ty = "Linear" -> Linear_mul_Linear(l, r)
    [] l.ty = "Quadratic" /\ r.ty = "Linear" -> Quadratic_mul_Linear(l, r)
    [] l.ty = "Quadratic" /\ r.ty = "Quadratic" -> Quadratic_mul_Quadratic(l, r)
    [] l.ty = "Cubic" /\ r.ty = "Linear" -> Cubic_mul_Linear(l, r)

(***************************************************************************)
(* Root finding.  The quotient n / d of two whole numbers is held as the   *)
(* fraction in lowest terms with a positive denominator; a denominator of  *)
(* 0 stands for the infinity or NaN an f64 division by zero produces.      *)
(***************************************************************************)
RECURSIVE GCD(_, _)
GCD(m, n) == IF n = 0 THEN m ELSE GCD(n, m % n)

Quot(n, d) ==
  IF d = 0 THEN [num |-> n, den |-> 0]
  ELSE LET g == GCD(abs(n), abs(d))
           sgn == IF d < 0 THEN 0 - 1 ELSE 1
       IN [num |-> (sgn * n) \div g, den |-> (sgn * d) \div g]

NoSolution == [ok |-> FALSE, why |-> "no solution"]
NoRealRoots == [ok |-> FALSE, why |-> "no real roots"]
Found(v) == [ok |-> TRUE, val |-> v]

Linear_root_unguarded(l) == Found(Quot(0 - l.c[2], l.c[1]))

\* Linear::root
Linear_root(l) ==
  IF l.c[1] = 0 THEN NoSolution
  ELSE Found(Quot(0 - l.c[2], l.c[1]))

\* Quadratic::roots: (-b + sqrt(disc)) / 2a and (-b - sqrt(disc)) / 2a, each
\* held as its parts
Quadratic_roots(q) ==
  LET disc == q.c[2] * q.c[2] - 4 * q.c[1] * q.c[3]
      root(sign) == [minus_b |-> 0 - q.c[2], sign |-> sign, sqrt_of |-> disc,
                     den |-> 2 * q.c[1]]
  IN IF q.c[1] = 0 THEN NoSolution
     ELSE IF disc < 0 THEN NoRealRoots
     ELSE Found(<<root(1), root(0 - 1)>>)

(***************************************************************************)
(* Actions of the Polynomial part: on the polynomial constructed initially *)
(* either a run of derivative() calls, or one multiplication, or one root  *)
(* computation.                                                            *)
(***************************************************************************)
PolyInit ==
  /\ origin \in UNION {Values(ty) : ty \in Types}
  /\ pop = "none"
  /\ recv = origin
  /\ arg = Scalar(0)
  /\ pout = origin
  /\ nderiv = 0
  \* the other parts stay idle
  /\ pc = "idle"
  /\ self = <<>>
  /\ other = <<>>
  /\ size = 0
  /\ i = 0
  /\ to_push = 0
  /\ new = <<>>
  /\ result = <<>>
  /\ lastop = "none"
  /\ first = [op |-> "none", p |-> <<>>, q |-> <<>>]
  /\ chained = FALSE
  /\ coefs = <<>>
  /\ fn = "none"
  /\ fval = 0
  /\ fsuffix = <<>>
  /\ fout = <<>>

\* pout.derivative(): the first call is on the constructed polynomial
Derive ==
  /\ pop \in {"none", "derivative"}
  /\ nderiv < MaxDerivs
  /\ pop' = "derivative"
  /\ recv' = pout
  /\ pout' = derivative(pout)
  /\ nderiv' = nderiv + 1
  /\ UNCHANGED <<origin, arg>>
  /\ UNCHANGED <<gpvars, fmtvars>>

\* origin * r
Multiply(r) ==
  /\ pop = "none"
  /\ MulDefined(origin.ty, r.ty)
  /\ pop' = "mul"
  /\ arg' = r
  /\ pout' = mul(origin, r)
  /\ UNCHANGED <<origin, recv, nderiv>>
  /\ UNCHANGED <<gpvars, fmtvars>>

\* Linear::root()
Root ==
  /\ pop = "none"
  /\ origin.ty = "Linear"
  /\ pop' = "root"
  /\ pout' = Linear_root(origin)
  /\ UNCHANGED <<origin, recv, arg, nderiv>>
  /\ UNCHANGED <<gpvars, fmtvars>>

\* Quadratic::roots()
Roots ==
  /\ pop = "none"
  /\ origin.ty = "Quadratic"
  /\ pop' = "roots"
  /\ pout' = Quadratic_roots(origin)
  /\ UNCHANGED <<origin, recv, arg, nderiv>>
  /\ UNCHANGED <<gpvars, fmtvars>>

PolyNext ==
  \/ Derive
  \/ \E r \in UNION {Values(ty) : ty \in {"f64", "Linear", "Quadratic"}} : Multiply(r)
  \/ Root
  \/ Roots

SpecPoly == PolyInit /\ [][PolyNext]_vars

(***************************************************************************)
(* Claims about the Polynomial trait.                                      *)
(***************************************************************************)
\* C6: four successive derivative() calls on a Quartic return the zero
\* scalar.
C6_FourDerivativesGiveZero ==
  (origin.ty = "Quartic" /\ pop = "derivative" /\ nderiv = 4) =>
    (pout.ty = "f64" /\ is_zero(pout))

\* C6, amended: four successive derivative() calls on a Quartic {a, ...}
\* return the scalar 24a, which is zero only when a = 0; the fifth call
\* returns the zero scalar.
C6_FiveDerivativesGiveZero ==
  /\ (origin.ty = "Quartic" /\ pop = "derivative" /\ nderiv = 4) =>
       /\ pout = Scalar(24 * origin.c[1])
       /\ is_zero(pout) <=> origin.c[1] = 0
  /\ (origin.ty = "Quartic" /\ pop = "derivative" /\ nderiv = 5) =>
       (pout.ty = "f64" /\ is_zero(pout))

\* the fifth derivative of a Quartic with a # 0 has been taken
C6_Witness ==
  /\ origin.ty = "Quartic"
  /\ origin.c[1] # 0
  /\ pop = "derivative"
  /\ nderiv = 5
  /\ recv = Scalar(24 * origin.c[1])
  /\ pout = Scalar(0)

Max(a, b) == IF a > b THEN a ELSE b

\* the polynomial of p's type with every coefficient 0
Zeroed(p) == [ty |-> p.ty, c |-> [k \in 1..Len(p.c) |-> 0]]

\* C7: the degree of p.derivative() is max(p.degree() - 1, 0) for every p of
\* every type, and degree() is the same for p and for the all-zero value of
\* p's type.
C7_DerivativeDegree ==
  /\ pop = "derivative" =>
       /\ degree(pout) = Max(degree(recv) - 1, 0)
       /\ degree(recv) = degree(Zeroed(recv))
       /\ degree(pout) = degree(Zeroed(pout))
  /\ degree(origin) = degree(Zeroed(origin))

\* the derivative of a non-zero scalar was taken
C7_Witness ==
  /\ pop = "derivative"
  /\ recv.ty = "f64"
  /\ recv.c[1] # 0
  /\ pout.ty = "f64"

\* the coefficient of x^k in p
CoeffOfPower(p, k) == p.c[Len(p.c) - k]

RECURSIVE ConvFrom(_, _, _, _)
\* the sum of l[n] * r[k - n] over n from `from` up
ConvFrom(l, r, k, from) ==
  IF from > degree(l) \/ from > k THEN 0
  ELSE (IF k - from <= degree(r)
        THEN CoeffOfPower(l, from) * CoeffOfPower(r, k - from)
        ELSE 0) + ConvFrom(l, r, k, from + 1)

\* C8: a product of operands of degrees m and n has the type of degree
\* m + n, and its coefficient of x^k is the sum of l[n] * r[k - n].
C8_MulIsConvolution ==
  pop = "mul" =>
    /\ degree(pout) = degree(origin) + degree(arg)
    /\ Len(pout.c) = degree(pout) + 1
    /\ \A k \in 0..degree(pout) : CoeffOfPower(pout, k) = ConvFrom(origin, arg, k, 0)

\* Quadratic {1, 1, 1} * Quadratic {1, 1, 1} returned Quartic {1, 2, 3, 2, 1}
C8_Witness ==
  /\ pop = "mul"
  /\ origin = Quadratic(1, 1, 1)
  /\ arg = Quadratic(1, 1, 1)
  /\ pout = Quartic(1, 2, 3, 2, 1)

\* C9: root() of a Linear and roots() of a Quadratic with a = 0 return the
\* "no solution" outcome; root() with a # 0 returns -b / a; no returned
\* value is a quotient by zero.
C9_DegenerateRoots ==
  /\ pop = "root" =>
       IF origin.c[1] = 0 THEN pout = NoSolution
       ELSE /\ pout.ok
            /\ pout.val.den # 0
            /\ pout.val.num * origin.c[1] = (0 - origin.c[2]) * pout.val.den
  /\ pop = "roots" =>
       IF origin.c[1] = 0 THEN pout = NoSolution
       ELSE pout.ok => \A k \in 1..2 : pout.val[k].den # 0

\* root() of the degenerate Linear {0, 1} returned "no solution"
C9_Witness ==
  /\ pop = "root"
  /\ origin = Linear(0, 1)
  /\ pout = NoSolution

=============================================================================
